---- MODULE Spec2Model ----
(***************************************************************************)
(* Model of translate_and_post.py (pronews.jp -> prodg.kr translator v6).  *)
(*                                                                         *)
(* A process is one invocation of the script: NewsTranslator() is built    *)
(* (ledger loaded), run() probes the Gemini key, reads the feed and then   *)
(* handles the selected articles one after the other.  A call of           *)
(* GeminiEngine._call_api, with its attempts, is one step; the caller's    *)
(* code between two service calls belongs to the step that ends the        *)
(* earlier call.                                                           *)
(*                                                                         *)
(* Text is abstracted to what the code looks at: an inner-HTML string is a *)
(* record [len, text, kana] (characters, visible characters, kana          *)
(* codepoints); len = 0 is the empty string.                               *)
(***************************************************************************)
EXTENDS Integers, Sequences, FiniteSets, TLC

\* ---------------------------------------------------------------- bounds
MaxUrl    == 2      \* distinct article links the feed may carry
MaxFeed   == 2      \* feed entries per run
MaxDate   == 2      \* distinct publication dates
MaxLedger == 2      \* ledger lines from which on no further process is started
MaxBlocks == 3      \* block elements of a body in the chunking specification

\* ---------------------------------------------------- program constants
DAILY_LIMIT        == 10
CHUNK_BUDGET       == 3000
MIN_TEXT_LEN       == 3
JAPANESE_THRESHOLD == 5
TITLE_TRIES        == 3
MIN_TITLE_LENGTH   == 10

\* ------------------------------------------------------------ utilities
RECURSIVE SumKana(_)
SumKana(s) == IF s = <<>> THEN 0 ELSE Head(s).kana + SumKana(Tail(s))

Count(s, x) == Cardinality({j \in DOMAIN s : s[j] = x})

IsPrefix(s, t) == Len(s) <= Len(t) /\ SubSeq(t, 1, Len(s)) = s

Min(a, b) == IF a <= b THEN a ELSE b

\* ------------------------------------------------------------ documents
EmptyStr == [len |-> 0, text |-> 0, kana |-> 0]

Html(l, t, k) == [len |-> l, text |-> t, kana |-> k]

Block(tag, inner) == [tag |-> tag, inner |-> inner]

\* a body as BeautifulSoup sees it: its block elements in document order and
\* whether it has visible text outside every block element
Doc(blocks, loose) == [blocks |-> blocks, loose |-> loose]

EmptyDoc == Doc(<<>>, EmptyStr)

\* ---------------------------------------- translate_and_edit_content, 3.
\* blocks kept for translation: non-empty inner HTML whose visible text,
\* placeholders and tags removed, has at least 3 characters
IsTranslatable(b) == b.inner.len > 0 /\ b.inner.text >= MIN_TEXT_LEN

RECURSIVE SelectBlocks(_)
SelectBlocks(blocks) ==
    IF blocks = <<>> THEN <<>>
    ELSE IF IsTranslatable(Head(blocks))
         THEN <<Head(blocks)>> \o SelectBlocks(Tail(blocks))
         ELSE SelectBlocks(Tail(blocks))

\* ---------------------------------------- translate_and_edit_content, 4.
\* the loop over enumerate(translatable_blocks); i is the 0-based index of
\* the block being looked at, a chunk is (start_idx, end_idx) with its size
Chunk(s, e, size) == [start |-> s, end |-> e, size |-> size]

\* mutant: a chunk is closed only when it would pass the budget by two
RECURSIVE ChunkLoopOverBudget(_, _, _, _, _)
ChunkLoopOverBudget(tb, i, start_idx, current_size, acc) ==
    IF i = Len(tb)
    THEN IF i > start_idx
         THEN Append(acc, Chunk(start_idx, Len(tb), current_size))
         ELSE acc
    ELSE LET l == tb[i + 1].inner.len IN
         IF current_size + l > CHUNK_BUDGET + 1 /\ i > start_idx
         THEN ChunkLoopOverBudget(tb, i + 1, i, l,
                                  Append(acc, Chunk(start_idx, i, current_size)))
         ELSE ChunkLoopOverBudget(tb, i + 1, start_idx, current_size + l, acc)

\* mutant: the test for a non-empty current_chunk is left out
RECURSIVE ChunkLoopClosesEmpty(_, _, _, _, _)
ChunkLoopClosesEmpty(tb, i, start_idx, current_size, acc) ==
    IF i = Len(tb)
    THEN IF i > start_idx
         THEN Append(acc, Chunk(start_idx, Len(tb), current_size))
         ELSE acc
    ELSE LET l == tb[i + 1].inner.len IN
         IF current_size + l > CHUNK_BUDGET
         THEN ChunkLoopClosesEmpty(tb, i + 1, i, l,
                                   Append(acc, Chunk(start_idx, i, current_size)))
         ELSE ChunkLoopClosesEmpty(tb, i + 1, start_idx, current_size + l, acc)

RECURSIVE ChunkLoop(_, _, _, _, _)
ChunkLoop(tb, i, start_idx, current_size, acc) ==
    IF i = Len(tb)
    THEN IF i > start_idx
         THEN Append(acc, Chunk(start_idx, Len(tb), current_size))
         ELSE acc
    ELSE LET l == tb[i + 1].inner.len IN
         IF current_size + l > CHUNK_BUDGET /\ i > start_idx
         THEN ChunkLoop(tb, i + 1, i, l,
                        Append(acc, Chunk(start_idx, i, current_size)))
         ELSE ChunkLoop(tb, i + 1, start_idx, current_size + l, acc)

\* mutant: the closing chunk after the loop is forgotten
BuildChunksNoTail(tb) ==
    LET all == ChunkLoop(tb, 0, 0, 0, <<>>)
    IN  IF Len(all) > 1 THEN SubSeq(all, 1, Len(all) - 1) ELSE all

BuildChunks(tb) == ChunkLoop(tb, 0, 0, 0, <<>>)

\* ------------------------------------------------------------ _has_japanese
\* kana codepoints of the visible text of a body
KanaOf(doc) == SumKana([j \in DOMAIN doc.blocks |-> doc.blocks[j].inner]) + doc.loose.kana

has_japanese(doc) == KanaOf(doc) > JAPANESE_THRESHOLD

\* ------------------------------------------------------------ ledger file
load_posted_articles_empty(file) == <<>>

load_posted_articles(file) == file

save_posted_articles(list) == list

\* ------------------------------------------------------------ fetch_rss_feed
Entry(l, d) == [link |-> l, date |-> d]

RECURSIVE Unposted(_, _, _)
Unposted(entries, posted, force) ==
    IF entries = <<>> THEN <<>>
    ELSE IF ~force /\ Count(posted, Head(entries).link) > 0
         THEN Unposted(Tail(entries), posted, force)
         ELSE <<Head(entries)>> \o Unposted(Tail(entries), posted, force)

\* list.sort(key=date, reverse=True) is stable: equal dates keep feed order
RECURSIVE InsertByDate(_, _)
InsertByDate(x, s) ==
    IF s = <<>> THEN <<x>>
    ELSE IF Head(s).date >= x.date
         THEN <<Head(s)>> \o InsertByDate(x, Tail(s))
         ELSE <<x>> \o s

RECURSIVE SortNewestFirst(_)
SortNewestFirst(s) ==
    IF s = <<>> THEN <<>>
    ELSE InsertByDate(s[Len(s)], SortNewestFirst(SubSeq(s, 1, Len(s) - 1)))

fetch_rss_feed_unfiltered(entries, posted, force) ==
    LET sorted == SortNewestFirst(entries)
    IN  SubSeq(sorted, 1, Min(Len(sorted), DAILY_LIMIT))

\* mutant: the cut at DAILY_LIMIT is left out
fetch_rss_feed_uncut(entries, posted, force) ==
    SortNewestFirst(Unposted(entries, posted, force))

fetch_rss_feed(entries, posted, force) ==
    LET sorted == SortNewestFirst(Unposted(entries, posted, force))
    IN  SubSeq(sorted, 1, Min(Len(sorted), DAILY_LIMIT))

LinksOf(articles) == [j \in DOMAIN articles |-> articles[j].link]

\* ------------------------------------------------------------ inputs
URLS == 1 .. MaxUrl

Entries == {Entry(l, d) : l \in URLS, d \in 1 .. MaxDate}

Feeds == UNION {[1 .. n -> Entries] : n \in 0 .. MaxFeed}

\* what an HTTP attempt of _call_api can end in: a usable text, HTTP 429,
\* or any other failure (exception, timeout, no candidates)
AttemptOutcomes == {"ok", "throttled", "error"}

Ja(l, k) == Html(l, l, k)

\* bodies fetch_full_content can return: one paragraph; a short paragraph and
\* a quotation, too long for one chunk; a paragraph and a list item; a
\* paragraph holding only an image; text with no block element around it;
\* a paragraph written without kana (kanji, digits, Latin letters)
DocOneP      == Doc(<<Block("p", Ja(1500, 6))>>, EmptyStr)
DocTwoChunks == Doc(<<Block("p", Ja(2000, 3)), Block("blockquote", Ja(2000, 3))>>, EmptyStr)
DocTwoBlocks == Doc(<<Block("p", Ja(1000, 6)), Block("li", Ja(1000, 6))>>, EmptyStr)
DocMediaOnly == Doc(<<Block("p", Html(13, 0, 0))>>, EmptyStr)
DocNoBlock   == Doc(<<>>, Ja(500, 6))
DocNoKana    == Doc(<<Block("p", Ja(1500, 0))>>, EmptyStr)

ContentDocs == {DocOneP, DocTwoChunks, DocTwoBlocks, DocMediaOnly, DocNoBlock, DocNoKana}

\* the bodies the runs of the whole pipeline are explored with
PipelineDocs == {DocOneP, DocNoBlock}

\* a segment of a service answer, stripped: empty, Korean, or kana left in
PartVals == {EmptyStr, Ja(100, 0), Ja(100, 6)}

\* answers of the service to a chunk of n blocks: a non-empty text that
\* splits on the separator into n-1, n or n+1 segments (at least one)
ChunkAnswers(n) ==
    UNION {[1 .. m -> PartVals] : m \in {x \in {n - 1, n, n + 1} : x >= 1}}

\* answers to the full-text call and to _translate_single: one text
TextAnswers == {Ja(100, 0), Ja(100, 6)}

\* cleaned length of an answer to the title prompt
TitleAnswers == {5, 20}

\* ---------------------------------------- translate_and_edit_content, 5.
\* the entries one chunk adds to translated_blocks; answer = <<>> is the
\* failed call (_translate_chunk returned ""), else the split segments
Pad(n) == [j \in 1 .. n |-> EmptyStr]

ReassembleDropShort(tb, c, answer) ==
    IF answer = <<>>
    THEN [j \in 1 .. (c.end - c.start) |-> tb[c.start + j].inner]
    ELSE SubSeq(answer, 1, Min(Len(answer), c.end - c.start))

Reassemble(tb, c, answer) ==
    LET expected_count == c.end - c.start IN
    IF answer = <<>>
    THEN [j \in 1 .. expected_count |-> tb[c.start + j].inner]
    ELSE IF Len(answer) >= expected_count
         THEN SubSeq(answer, 1, expected_count)
         ELSE answer \o Pad(expected_count - Len(answer))

\* validation after the chunk loop: fewer than 30% non-empty entries fails
NonEmpty(tr) == Cardinality({j \in DOMAIN tr : tr[j].len > 0})

\* mutant: only a result without any non-empty entry fails
ValidationFailsWhenAllEmpty(tr, total_blocks) == NonEmpty(tr) = 0

ValidationFails(tr, total_blocks) == 10 * NonEmpty(tr) < 3 * total_blocks

\* ---------------------------------------- translate_and_edit_content, 6.
\* t is the 1-based position among the translatable blocks
RECURSIVE InsertLoop(_, _, _)
InsertLoop(blocks, tr, t) ==
    IF blocks = <<>> THEN <<>>
    ELSE LET b == Head(blocks) IN
         IF IsTranslatable(b)
         THEN <<IF t <= Len(tr) /\ tr[t].len > 0 THEN Block(b.tag, tr[t]) ELSE b>>
              \o InsertLoop(Tail(blocks), tr, t + 1)
         ELSE <<b>> \o InsertLoop(Tail(blocks), tr, t)

InsertBlocks(doc, tr) == Doc(InsertLoop(doc.blocks, tr, 1), doc.loose)

\* ------------------------------------------------------------ _cleanup_japanese
CleanupTags == {"p", "h1", "h2", "h3", "h4", "li"}

NeedsRepair(b) == b.tag \in CleanupTags /\ b.inner.kana > 0

RepairTargets(doc) == {j \in DOMAIN doc.blocks : NeedsRepair(doc.blocks[j])}

\* mutant: only the first element with kana is translated again
NextRepairFirstOnly(doc, from) ==
    LET cand == {j \in DOMAIN doc.blocks : j >= from /\ from = 1 /\ NeedsRepair(doc.blocks[j])}
    IN  IF cand = {} THEN 0 ELSE CHOOSE j \in cand : \A m \in cand : j <= m

\* the next element at or after position from that gets a _translate_single
\* call, 0 when the loop is over
NextRepair(doc, from) ==
    LET cand == {j \in DOMAIN doc.blocks : j >= from /\ NeedsRepair(doc.blocks[j])}
    IN  IF cand = {} THEN 0 ELSE CHOOSE j \in cand : \A m \in cand : j <= m

\* elem.string = translated
SetString(doc, j, t) ==
    Doc([doc.blocks EXCEPT ![j] = Block(doc.blocks[j].tag, t)], doc.loose)

\* elem.get_text()
GetText(b) == Html(b.inner.text, b.inner.text, b.inner.kana)

\* process_article, final check before publishing
FinalCheckOff(doc) == FALSE

FinalCheckFails(doc) == has_japanese(doc)

\* ------------------------------------------------------------ state
VARIABLES
    ledger_file,       \* posted_articles.json
    posted_articles,   \* NewsTranslator.posted_articles
    FORCE_UPDATE,      \* environment of the running process
    pc,                \* where the process is
    target,            \* articles returned by fetch_rss_feed, each by its link
    i,                 \* enumerate(articles, 1) in run
    art,               \* locals of process_article and of the two translate_and_edit functions;
                       \* observed: slept, the seconds of time.sleep since the last call of the client returned
    loaded,            \* observed: the ledger as load_posted_articles returned it
    skipped,           \* observed: feed entries fetch_rss_feed left out as already posted
    exhausted,         \* observed: position of the article during which a call first ran out of attempts on HTTP 429
    outcome            \* observed: how the last finished process_article ended; entries and blocks
                       \* are the non-empty entries of translated_blocks and the number of
                       \* translatable blocks of a body that failed the validation

vars == <<ledger_file, posted_articles, FORCE_UPDATE, pc, target, i,
          art, loaded, skipped, exhausted, outcome>>

NoArt == [raw_html |-> EmptyDoc, translatable_blocks |-> <<>>,
          chunks |-> <<>>, k |-> 0, translated_blocks |-> <<>>,
          content_ko |-> EmptyDoc, e |-> 0, repair_passes |-> 0, repair_due |-> 0,
          repair_calls |-> 0, chunks_failed |-> 0, slept |-> 0]

NoOutcome == [idx |-> 0, link |-> 0, result |-> FALSE, stage |-> "none",
              passes |-> 0, due |-> 0, calls |-> 0, kana |-> 0, chunks_failed |-> 0,
              entries |-> 0, blocks |-> 0]

Init ==
    /\ ledger_file = <<>>
    /\ posted_articles = <<>>
    /\ FORCE_UPDATE = FALSE
    /\ pc = "idle"
    /\ target = <<>>
    /\ i = 0
    /\ art = NoArt
    /\ loaded = <<>>
    /\ skipped = 0
    /\ exhausted = 0
    /\ outcome = NoOutcome

\* ------------------------------------------------------------ continuations
Goto(p, a) ==
    /\ pc' = p
    /\ art' = a
    /\ UNCHANGED <<target, i, skipped, outcome>>

\* run: "for i, article in enumerate(articles, 1)" goes to the next article
\* whatever process_article returned; after the last one run returns and the
\* process ends, its locals with it. The count of True results only decides
\* whether commit_posted_articles then runs git on the file, which changes
\* nothing here, so it is not kept
ExitRun ==
    /\ pc' = "done"
    /\ target' = <<>>
    /\ i' = 0
    /\ skipped' = 0

LoopBreaksOnThrottle(res) ==
    IF i < Len(target) /\ exhausted' = 0
    THEN /\ pc' = "article"
         /\ i' = i + 1
         /\ UNCHANGED <<target, skipped>>
    ELSE ExitRun

LoopAdvance(res) ==
    IF i < Len(target)
    THEN /\ pc' = "article"
         /\ i' = i + 1
         /\ UNCHANGED <<target, skipped>>
    ELSE ExitRun

\* process_article returns res; run sleeps 3 s before the next article
EndArticle(res, stage, a, kana) ==
    /\ outcome' = [idx |-> i, link |-> IF i \in DOMAIN target THEN target[i] ELSE 0,
                   result |-> res, stage |-> stage,
                   passes |-> a.repair_passes, due |-> a.repair_due,
                   calls |-> a.repair_calls, kana |-> kana,
                   chunks_failed |-> a.chunks_failed,
                   entries |-> IF stage = "body" THEN NonEmpty(a.translated_blocks) ELSE 0,
                   blocks |-> IF stage = "body" THEN Len(a.translatable_blocks) ELSE 0]
    /\ LoopAdvance(res)
    /\ art' = [NoArt EXCEPT !.slept = IF i < Len(target) THEN a.slept + 3 ELSE 0]

\* translate_and_edit_content returned to process_article (lines 711-726);
\* its locals are gone, content_ko is what it returned
ContentReturn(ok, doc, a) ==
    IF ~ok THEN EndArticle(FALSE, "body", a, 0)
    ELSE IF FinalCheckFails(doc) THEN EndArticle(FALSE, "residual", a, KanaOf(doc))
    ELSE Goto("excerpt", [NoArt EXCEPT !.content_ko = doc,
                                       !.repair_passes = a.repair_passes,
                                       !.repair_due = a.repair_due,
                                       !.repair_calls = a.repair_calls,
                                       !.chunks_failed = a.chunks_failed,
                                       !.slept = a.slept])

\* translate_and_edit_content after the chunk loop (lines 285-314)
AfterChunks(a) ==
    IF ValidationFails(a.translated_blocks, Len(a.translatable_blocks))
    THEN ContentReturn(FALSE, EmptyDoc, a)
    ELSE LET doc == InsertBlocks(a.raw_html, a.translated_blocks) IN
         IF has_japanese(doc)
         THEN LET a2 == [a EXCEPT !.repair_passes = @ + 1, !.content_ko = doc,
                                   !.repair_due = Cardinality(RepairTargets(doc))]
                  nxt == NextRepair(doc, 1)
              IN  IF nxt = 0 THEN ContentReturn(TRUE, doc, a2)
                  ELSE Goto("repair", [a2 EXCEPT !.e = nxt])
         ELSE ContentReturn(TRUE, doc, a)

\* ------------------------------------------------------------ _call_api
\* what a call of the client can return: a usable answer of one of its
\* attempts, or fail (the "" of line 116) after the last attempt failed too;
\* outcome is then what that last attempt met
CallResults(Answers, fail) ==
    {[outcome |-> "ok", val |-> r] : r \in Answers}
    \cup {[outcome |-> o, val |-> fail] : o \in AttemptOutcomes \ {"ok"}}

\* the part of a call that is the same for every caller; the caller's code
\* from the return of the call to its next call belongs to the same step
CallApi(o) ==
    /\ UNCHANGED <<ledger_file, posted_articles, FORCE_UPDATE, loaded>>
    /\ exhausted' = IF o.outcome = "throttled" /\ exhausted = 0
                    THEN i ELSE exhausted

\* ------------------------------------------------------------ __main__
\* a new process: NewsTranslator() (GeminiEngine() checks the key, the ledger
\* is loaded), then run() up to the probe call. outcome.stage tells which
\* sys.exit(1) ended a process that is at "exit"
\* The ledger grows without limit over the processes of a deployment: no
\* further process is started once it holds MaxLedger lines
Start ==
    /\ pc \in {"idle", "exit", "done"}
    /\ Len(ledger_file) < MaxLedger
    /\ \E force \in BOOLEAN, key \in BOOLEAN, wp \in BOOLEAN :
        /\ FORCE_UPDATE' = force
        /\ IF key
           THEN /\ posted_articles' = load_posted_articles(ledger_file)
                /\ loaded' = load_posted_articles(ledger_file)
                /\ pc' = IF wp THEN "probe" ELSE "exit"
           ELSE /\ UNCHANGED <<posted_articles, loaded>>
                /\ pc' = "exit"
    /\ target' = <<>>
    /\ i' = 0
    /\ art' = NoArt
    /\ skipped' = 0
    /\ exhausted' = 0
    /\ outcome' = IF pc' = "exit" THEN [NoOutcome EXCEPT !.stage = "credentials"]
                  ELSE NoOutcome
    /\ UNCHANGED ledger_file

\* mutant: a failed probe is reported and the run goes on
ProbeReturnContinues(r) ==
    /\ UNCHANGED art
    /\ outcome' = IF r = "" THEN [NoOutcome EXCEPT !.stage = "probe"] ELSE outcome
    /\ \E feed \in Feeds :
          LET articles == fetch_rss_feed(feed, posted_articles, FORCE_UPDATE) IN
          IF articles = <<>>
          THEN pc' = "done" /\ UNCHANGED <<target, i, skipped>>
          ELSE /\ pc' = "article"
               /\ target' = LinksOf(articles)
               /\ i' = 1
               /\ skipped' = Len(feed) - Len(Unposted(feed, posted_articles, FORCE_UPDATE))

\* run: the probe call returned; on success the feed is read
ProbeReturn(r) ==
    /\ UNCHANGED art
    /\ IF r = ""
       THEN /\ pc' = "exit"
            /\ outcome' = [NoOutcome EXCEPT !.stage = "probe"]
            /\ UNCHANGED <<target, i, skipped>>
       ELSE /\ UNCHANGED outcome
            /\ \E feed \in Feeds :
              LET articles == fetch_rss_feed(feed, posted_articles, FORCE_UPDATE) IN
              IF articles = <<>>
              THEN pc' = "done" /\ UNCHANGED <<target, i, skipped>>
              ELSE /\ pc' = "article"
                   /\ target' = LinksOf(articles)
                   /\ i' = 1
                   /\ skipped' = Len(feed) - Len(Unposted(feed, posted_articles, FORCE_UPDATE))

Probe ==
    /\ pc = "probe"
    /\ \E o \in CallResults({"text"}, "") :
        /\ CallApi(o)
        /\ ProbeReturn(o.val)

\* ------------------------------------------------------------ is_already_posted_on_wp
\* what the search request can end in: it raised (no connection, timeout, a
\* body that is no JSON), or it returned with a status and posts of which
\* one holds the link in its content or none does
SearchResults ==
    {[raised |-> ra, status |-> st, hit |-> h] :
        ra \in BOOLEAN, st \in {200, 500}, h \in BOOLEAN}

is_already_posted_on_wp(r) == ~r.raised /\ r.status = 200 /\ r.hit

\* ------------------------------------------------------------ process_article
\* lines 691-693: the link of a post found on the destination
RecordNothing(posted, link) == posted

RecordDuplicate(posted, link) ==
    IF Count(posted, link) = 0 THEN Append(posted, link) ELSE posted

\* what fetch_full_content can return: None (no body container, or the
\* request failed), or the markup of the container
FetchResults ==
    {[found |-> FALSE, doc |-> EmptyDoc]}
    \cup {[found |-> TRUE, doc |-> d] : d \in PipelineDocs}

\* lines 697-704, up to the first call for the title
FetchReturnTranslates(raw) ==
    /\ pc' = "title"
    /\ art' = [art EXCEPT !.raw_html = raw.doc]
    /\ outcome' = NoOutcome
    /\ UNCHANGED <<target, i, skipped>>

FetchReturn(raw) ==
    IF ~raw.found THEN EndArticle(FALSE, "extract", art, 0)
    ELSE /\ pc' = "title"
         /\ art' = [art EXCEPT !.raw_html = raw.doc]
         /\ outcome' = NoOutcome
         /\ UNCHANGED <<target, i, skipped>>

\* lines 689-700: duplicate check on the destination, then the content fetch
BeginArticle ==
    /\ pc = "article"
    /\ UNCHANGED <<FORCE_UPDATE, loaded, exhausted>>
    /\ \E r \in SearchResults :
        LET link == target[i]
            list == RecordDuplicate(posted_articles, link)
        IN  IF ~FORCE_UPDATE /\ is_already_posted_on_wp(r)
            THEN /\ posted_articles' = list
                 /\ ledger_file' = IF list # posted_articles
                                   THEN save_posted_articles(list) ELSE ledger_file
                 /\ EndArticle(FALSE, "duplicate", art, 0)
            ELSE /\ UNCHANGED <<ledger_file, posted_articles>>
                 /\ \E raw \in FetchResults : FetchReturn(raw)

\* translate_and_edit_title, the whole function: up to TITLE_TRIES calls with
\* the main prompt, then one with the fallback prompt. The first answer whose
\* cleaned text has MIN_TITLE_LENGTH characters or more is returned, "" when
\* no call gave one. tries is the number of calls that gave none (failed, or
\* too short an answer) before the function returned, n the cleaned length
\* of the answer that was long enough; throttled says whether one of the
\* calls that failed had run out of attempts on HTTP 429. The function
\* sleeps 2 s after each call that gave none of the first TITLE_TRIES, and
\* returns right after the call that gave one, or after the last call
TitleReturn(n) ==
    IF n >= MIN_TITLE_LENGTH THEN Goto("content", [art EXCEPT !.slept = 0])
    ELSE EndArticle(FALSE, "title", [art EXCEPT !.slept = 0], 0)

Title ==
    /\ pc = "title"
    /\ \E tries \in 0 .. TITLE_TRIES + 1, throttled \in BOOLEAN,
          n \in {x \in TitleAnswers : x >= MIN_TITLE_LENGTH} :
        /\ throttled => tries > 0
        /\ CallApi([outcome |-> IF throttled THEN "throttled" ELSE "ok", val |-> n])
        /\ TitleReturn(IF tries <= TITLE_TRIES THEN n ELSE 0)

\* translate_and_edit_content, lines 184-255, up to the first service call
ContentStart ==
    /\ pc = "content"
    /\ UNCHANGED <<ledger_file, posted_articles, FORCE_UPDATE, loaded, exhausted>>
    /\ LET tb == SelectBlocks(art.raw_html.blocks) IN
       IF art.raw_html.blocks = <<>>
       THEN IF art.raw_html.loose.text = 0
            THEN ContentReturn(TRUE, art.raw_html, art)
            ELSE Goto("fulltext", art)
       ELSE IF tb = <<>>
            THEN ContentReturn(TRUE, art.raw_html, art)
            ELSE Goto("chunk", [art EXCEPT !.translatable_blocks = tb,
                                           !.chunks = BuildChunks(tb),
                                           !.k = 1,
                                           !.translated_blocks = <<>>])

\* lines 209-215: no block element, the whole text is one call
FullTextReturn(t) ==
    /\ IF t.len = 0 THEN ContentReturn(FALSE, EmptyDoc, [art EXCEPT !.slept = 0])
       ELSE ContentReturn(TRUE, Doc(<<Block("p", t)>>, EmptyStr), [art EXCEPT !.slept = 0])

FullText ==
    /\ pc = "fulltext"
    /\ \E o \in CallResults(TextAnswers, EmptyStr) :
        /\ CallApi(o)
        /\ FullTextReturn(o.val)

\* lines 259-283: the call for chunk k returned; chunks_failed counts the
\* calls that returned "". The sleep of line 283 is skipped by the continue
\* of line 266
ChunkReturn(answer) ==
    /\ LET a == [art EXCEPT !.translated_blocks =
                     @ \o Reassemble(art.translatable_blocks, art.chunks[art.k], answer),
                            !.chunks_failed = IF answer = <<>> THEN @ + 1 ELSE @,
                            !.slept = IF answer = <<>> THEN 0 ELSE 1]
       IN  IF art.k < Len(art.chunks)
           THEN Goto("chunk", [a EXCEPT !.k = @ + 1])
           ELSE AfterChunks(a)

ChunkCall ==
    /\ pc = "chunk"
    /\ \E o \in CallResults(ChunkAnswers(art.chunks[art.k].end - art.chunks[art.k].start), <<>>) :
        /\ CallApi(o)
        /\ ChunkReturn(o.val)

\* _cleanup_japanese: the _translate_single call for element e returned;
\* a failed call gives the element's own text back
RepairReturn(t) ==
    /\ LET b   == art.content_ko.blocks[art.e]
           doc == SetString(art.content_ko, art.e, IF t.len = 0 THEN GetText(b) ELSE t)
           a   == [art EXCEPT !.content_ko = doc, !.repair_calls = @ + 1, !.slept = 0]
           nxt == NextRepair(doc, art.e + 1)
       IN  IF nxt = 0 THEN ContentReturn(TRUE, doc, a)
           ELSE Goto("repair", [a EXCEPT !.e = nxt])

Repair ==
    /\ pc = "repair"
    /\ \E o \in CallResults(TextAnswers, EmptyStr) :
        /\ CallApi(o)
        /\ RepairReturn(o.val)

\* generate_excerpt: its result does not decide anything; line 726 sleeps
ExcerptReturn(t) ==
    /\ Goto("publish", [art EXCEPT !.slept = 1])

Excerpt ==
    /\ pc = "excerpt"
    /\ \E o \in CallResults(TextAnswers, EmptyStr) :
        /\ CallApi(o)
        /\ ExcerptReturn(o.val)

\* lines 760-764: the ledger after post_to_wordpress returned ok
RecordUnconditionally(ok, force, posted, link) ==
    IF ~force THEN Append(posted, link) ELSE posted

\* mutant: the force flag is not looked at after a publish
RecordAfterPublishForced(ok, force, posted, link) ==
    IF ok THEN Append(posted, link) ELSE posted

RecordAfterPublish(ok, force, posted, link) ==
    IF ok /\ ~force THEN Append(posted, link) ELSE posted

\* lines 757-766: post_to_wordpress and the ledger
Publish ==
    /\ pc = "publish"
    /\ UNCHANGED <<FORCE_UPDATE, loaded, exhausted>>
    /\ \E ok \in BOOLEAN :
        LET list == RecordAfterPublish(ok, FORCE_UPDATE, posted_articles, target[i]) IN
        /\ posted_articles' = list
        /\ ledger_file' = IF list # posted_articles
                          THEN save_posted_articles(list) ELSE ledger_file
        /\ EndArticle(ok, IF ok THEN "published" ELSE "publish", art,
                      KanaOf(art.content_ko))

Next ==
    \/ Start
    \/ Probe
    \/ BeginArticle
    \/ Title
    \/ ContentStart
    \/ FullText
    \/ ChunkCall
    \/ Repair
    \/ Excerpt
    \/ Publish

Spec == Init /\ [][Next]_vars

TypeOK == pc \in {"idle", "exit", "done", "probe", "article", "title", "content",
                  "fulltext", "chunk", "repair", "excerpt", "publish",
                  "protect", "restore", "returned", "detect", "detected",
                  "attempt", "called", "feed", "loop",
                  "title_try", "title_fallback", "title_returned", "validate"}

\* ------------------------------------------------------------ one article
\* process_article from the entry of translate_and_edit_content, for every
\* body of ContentDocs: the single article of a run with an empty ledger
InitContent ==
    /\ ledger_file = <<>>
    /\ posted_articles = <<>>
    /\ FORCE_UPDATE \in BOOLEAN
    /\ pc = "content"
    /\ target = <<1>>
    /\ i = 1
    /\ art \in {[NoArt EXCEPT !.raw_html = doc] : doc \in ContentDocs}
    /\ loaded = <<>>
    /\ skipped = 0
    /\ exhausted = 0
    /\ outcome = NoOutcome

NextContent ==
    \/ ContentStart
    \/ FullText
    \/ ChunkCall
    \/ Repair
    \/ Excerpt
    \/ Publish

SpecContent == InitContent /\ [][NextContent]_vars

\* ------------------------------------------------------------ chunking
\* the chunking loop on every body of up to MaxBlocks block elements whose
\* inner HTML has one of these lengths; a 13-character block holds only a
\* media placeholder and is not translatable
ChunkLens == {3, 1500, 1501, 2995, 2997, 2998, 3000, 3001}

ChunkBlocks == {Block("p", Ja(l, 0)) : l \in ChunkLens} \cup {Block("p", Html(13, 0, 0))}

ChunkDocs == {Doc(b, EmptyStr) : b \in UNION {[1 .. n -> ChunkBlocks] : n \in 0 .. MaxBlocks}}

InitChunk ==
    /\ ledger_file = <<>>
    /\ posted_articles = <<>>
    /\ FORCE_UPDATE = FALSE
    /\ pc = "content"
    /\ target = <<1>>
    /\ i = 1
    /\ art \in {[NoArt EXCEPT !.raw_html = doc] : doc \in ChunkDocs}
    /\ loaded = <<>>
    /\ skipped = 0
    /\ exhausted = 0
    /\ outcome = NoOutcome

NextChunk == ContentStart

SpecChunk == InitChunk /\ [][NextChunk]_vars

\* ------------------------------------------------------------ markup
\* translate_and_edit_content on markup itself, for the media placeholders.
\* A string is a sequence of tokens: a tag, a run of text ("KO": Korean,
\* "JA": a sentence with more than JAPANESE_THRESHOLD kana), a line break
\* between text pieces, or a piece of a placeholder.
Digit == <<"0", "1", "2", "3", "4", "5", "6", "7", "8", "9">>

RECURSIVE Decimal(_)
Decimal(n) ==
    IF n < 10 THEN <<Digit[n + 1]>>
    ELSE Decimal(n \div 10) \o <<Digit[(n % 10) + 1]>>

\* mutant: the counter is left out of the placeholder
PlaceholderSame(n) == <<"___MEDIA_">> \o Decimal(0) \o <<"___">>

\* f"___MEDIA_{media_counter}___"
Placeholder(n) == <<"___MEDIA_">> \o Decimal(n) \o <<"___">>

\* str.replace(old, new): every occurrence, left to right
RECURSIVE StrReplace(_, _, _)
StrReplace(s, old, new) ==
    IF Len(s) < Len(old) THEN s
    ELSE IF SubSeq(s, 1, Len(old)) = old
         THEN new \o StrReplace(SubSeq(s, Len(old) + 1, Len(s)), old, new)
         ELSE <<Head(s)>> \o StrReplace(Tail(s), old, new)

\* sub in s
Occurs(s, sub) ==
    \E k \in 1 .. Len(s) - Len(sub) + 1 : SubSeq(s, k, k + Len(sub) - 1) = sub

\* the parsed tree: a text node, an element with children, or an img (which
\* has none; its markup names its source)
ImgMarkup == <<"<img src=1/>", "<img src=2/>", "<img src=3/>", "<img src=4/>",
               "<img src=5/>", "<img src=6/>", "<img src=7/>", "<img src=8/>",
               "<img src=9/>", "<img src=10/>", "<img src=11/>", "<img src=12/>",
               "<img src=13/>", "<img src=14/>", "<img src=15/>", "<img src=16/>">>

OpenTag  == [p |-> "<p>", div |-> "<div>", figure |-> "<figure>"]
CloseTag == [p |-> "</p>", div |-> "</div>", figure |-> "</figure>"]

TextNode(s) == [kind |-> "text", tag |-> "", children |-> <<>>, s |-> s]
Elem(tag, children) == [kind |-> "elem", tag |-> tag, children |-> children, s |-> <<>>]
Img(k) == [kind |-> "elem", tag |-> "img", children |-> <<>>, s |-> <<ImgMarkup[k]>>]

\* str(tag) and tag.decode_contents()
RECURSIVE Str(_), decode_contents(_)
Str(node) ==
    IF node.kind = "text" \/ node.tag = "img" THEN node.s
    ELSE <<OpenTag[node.tag]>> \o decode_contents(node.children) \o <<CloseTag[node.tag]>>

decode_contents(nodes) ==
    IF nodes = <<>> THEN <<>>
    ELSE Str(Head(nodes)) \o decode_contents(Tail(nodes))

\* str(soup) of a tree built by the lxml parser
StrSoup(nodes) ==
    <<"<html>", "<body>">> \o decode_contents(nodes) \o <<"</body>", "</html>">>

media_tags == {"img", "iframe", "video", "figure", "source", "picture"}
block_tags == {"p", "li", "blockquote", "h1", "h2", "h3", "h4", "h5", "h6"}

\* soup.find_all(tags): the paths of the matching elements, in document
\* order (an element before the elements inside it)
RECURSIVE find_all(_, _, _, _)
find_all(nodes, k, prefix, tags) ==
    IF k > Len(nodes) THEN <<>>
    ELSE LET node == nodes[k]
             path == Append(prefix, k)
         IN  (IF node.kind = "elem" /\ node.tag \in tags THEN <<path>> ELSE <<>>)
             \o find_all(node.children, 1, path, tags)
             \o find_all(nodes, k + 1, prefix, tags)

RECURSIVE NodeAt(_, _)
NodeAt(nodes, path) ==
    IF Len(path) = 1 THEN nodes[path[1]]
    ELSE NodeAt(nodes[path[1]].children, Tail(path))

\* tag.replace_with(new) for the tag at path
RECURSIVE replace_with(_, _, _)
replace_with(nodes, path, new) ==
    [nodes EXCEPT ![path[1]] =
        IF Len(path) = 1 THEN new
        ELSE [nodes[path[1]] EXCEPT
                 !.children = replace_with(nodes[path[1]].children, Tail(path), new)]]

\* the text nodes under nodes, in order
RECURSIVE Strings(_)
Strings(nodes) ==
    IF nodes = <<>> THEN <<>>
    ELSE (IF Head(nodes).kind = "text" THEN <<Head(nodes).s>>
          ELSE Strings(Head(nodes).children))
         \o Strings(Tail(nodes))

\* soup.get_text(separator='\n', strip=True)
RECURSIVE JoinLines(_)
JoinLines(pieces) ==
    IF pieces = <<>> THEN <<>>
    ELSE IF Len(pieces) = 1 THEN pieces[1]
    ELSE pieces[1] \o <<"\n">> \o JoinLines(Tail(pieces))

get_text_lines(nodes) == JoinLines(SelectSeq(Strings(nodes), LAMBDA t : t # <<>>))

TagTokens ==
    {ImgMarkup[k] : k \in DOMAIN ImgMarkup}
    \cup {OpenTag[t] : t \in DOMAIN OpenTag} \cup {CloseTag[t] : t \in DOMAIN CloseTag}
    \cup {"<html>", "<body>", "</body>", "</html>"}

\* re.sub(r'<[^>]+>', '', s), and get_text() of the parsed string
StripTags(s) == SelectSeq(s, LAMBDA t : t \notin TagTokens)

RECURSIVE DigitsRun(_)
DigitsRun(s) ==
    IF s # <<>> /\ \E d \in DOMAIN Digit : Digit[d] = Head(s)
    THEN 1 + DigitsRun(Tail(s)) ELSE 0

\* re.sub(r'___MEDIA_\d+___', '', s)
RECURSIVE StripPlaceholders(_)
StripPlaceholders(s) ==
    IF s = <<>> THEN <<>>
    ELSE LET d == DigitsRun(Tail(s)) IN
         IF Head(s) = "___MEDIA_" /\ d > 0 /\ Len(s) >= d + 2 /\ s[d + 2] = "___"
         THEN StripPlaceholders(SubSeq(s, d + 3, Len(s)))
         ELSE <<Head(s)>> \o StripPlaceholders(Tail(s))

\* lines 220-228: the block has inner HTML, and text besides placeholders
has_text(block) ==
    StripTags(StripPlaceholders(decode_contents(block.children))) # <<>>

\* kana in a text: each "JA" run has one more than the threshold
KanaIn(s) == (JAPANESE_THRESHOLD + 1) * Cardinality({j \in DOMAIN s : s[j] = "JA"})

\* _has_japanese on markup
has_japanese_markup(s) == KanaIn(StripTags(s)) > JAPANESE_THRESHOLD

\* _cleanup_japanese with _translate_single returning its text unchanged:
\* elem.string = text for every p whose text has kana, then str(body)
RECURSIVE CleanupElements(_)
CleanupElements(s) ==
    IF s = <<>> THEN <<>>
    ELSE IF Head(s) = "<p>" /\ \E j \in 2 .. Len(s) : s[j] = "</p>"
    THEN LET close == CHOOSE j \in 2 .. Len(s) :
                          s[j] = "</p>" /\ \A m \in 2 .. j - 1 : s[m] # "</p>"
             text  == StripTags(SubSeq(s, 2, close - 1))
         IN  (IF KanaIn(text) > 0 THEN <<"<p>">> \o text \o <<"</p>">>
              ELSE SubSeq(s, 1, close))
             \o CleanupElements(SubSeq(s, close + 1, Len(s)))
    ELSE <<Head(s)>> \o CleanupElements(Tail(s))

cleanup_japanese(html) == <<"<body>">> \o CleanupElements(html) \o <<"</body>">>

\* ------------------------------------------------------------ media round trip
\* translate_and_edit_content with a translation that returns its input, on
\* bodies of a paragraph and up to MaxMedia images: after the paragraph, in
\* it, in a figure, in a paragraph or a div of their own, or alone
MaxMedia == 11

Imgs(n) == [k \in 1 .. n |-> Img(k)]

Para(t) == Elem("p", <<TextNode(<<t>>)>>)

MediaBodies ==
    UNION {   {<<Para(t)>> \o Imgs(n) : t \in {"KO", "JA"}}
         \cup {<<Elem("p", <<TextNode(<<t>>)>> \o Imgs(n))>> : t \in {"KO", "JA"}}
         \cup {<<Para("KO"), Elem("figure", Imgs(n))>>,
               <<Elem("p", Imgs(n))>>,
               <<Elem("div", <<TextNode(<<"KO">>)>> \o Imgs(n))>>}
         \cup {Imgs(m) : m \in {n} \ {0}}
        : n \in 0 .. MaxMedia}

\* the locals of translate_and_edit_content for these steps; parsed is the
\* tree as the parser built it, with the tags find_all returned still in it.
\* Observed besides: unrestored, the entries of protected_media whose
\* placeholder was not in the text when its replace ran; warnings, the
\* warnings the function has printed; issued, the placeholders earlier
\* documents of the run were given
MediaLocals(body) ==
    [html_content |-> decode_contents(body), parsed |-> body, soup |-> body,
     found |-> find_all(body, 1, <<>>, media_tags), media_counter |-> 0,
     protected_media |-> <<>>, main |-> FALSE, result_html |-> <<>>, restored |-> 0,
     unrestored |-> {}, warnings |-> {}, issued |-> {}]

InitMedia ==
    /\ ledger_file = <<>>
    /\ posted_articles = <<>>
    /\ FORCE_UPDATE = FALSE
    /\ pc = "protect"
    /\ target = <<1>>
    /\ i = 1
    /\ art \in {MediaLocals(body) : body \in MediaBodies}
    /\ loaded = <<>>
    /\ skipped = 0
    /\ exhausted = 0
    /\ outcome = NoOutcome

MediaStep(p, a) ==
    /\ pc' = p
    /\ art' = a
    /\ UNCHANGED <<ledger_file, posted_articles, FORCE_UPDATE, target, i,
                   loaded, skipped, exhausted, outcome>>

\* lines 192-196, one iteration. A tag inside a tag replaced earlier is no
\* longer in soup: replacing it changes the removed tag only
Protect ==
    /\ pc = "protect"
    /\ art.media_counter < Len(art.found)
    /\ LET path        == art.found[art.media_counter + 1]
           removed     == \E m \in 1 .. art.media_counter : IsPrefix(art.found[m], path)
           tag         == NodeAt(IF removed THEN art.parsed ELSE art.soup, path)
           placeholder == Placeholder(art.media_counter)
       IN  MediaStep("protect",
               [art EXCEPT !.protected_media =
                               Append(@, [placeholder |-> placeholder, original |-> Str(tag)]),
                           !.soup = IF removed THEN @
                                    ELSE replace_with(@, path, TextNode(placeholder)),
                           !.media_counter = @ + 1])

\* lines 200-303 with every translation equal to its input: the string
\* the placeholders are restored in
TranslateIdentity ==
    /\ pc = "protect"
    /\ art.media_counter = Len(art.found)
    /\ LET blocks == find_all(art.soup, 1, <<>>, block_tags)
           full_text == get_text_lines(art.soup)
           translatable_blocks ==
               SelectSeq(blocks, LAMBDA path : has_text(NodeAt(art.soup, path)))
       IN  IF blocks = <<>>
           THEN IF full_text = <<>>
                THEN MediaStep("returned", [art EXCEPT !.result_html = art.html_content])
                ELSE MediaStep("restore",
                         [art EXCEPT !.result_html = <<"<p>">> \o full_text \o <<"</p>">>])
           ELSE IF translatable_blocks = <<>>
                THEN MediaStep("restore", [art EXCEPT !.result_html = StrSoup(art.soup)])
                ELSE MediaStep("restore",
                         [art EXCEPT !.result_html = decode_contents(art.soup),
                                     !.main = TRUE])

\* lines 212-213, 233-234, 306-307: one iteration
Restore ==
    /\ pc = "restore"
    /\ art.restored < Len(art.protected_media)
    /\ LET m == art.protected_media[art.restored + 1] IN
       MediaStep("restore",
           [art EXCEPT !.result_html = StrReplace(@, m.placeholder, m.original),
                       !.unrestored = IF Occurs(art.result_html, m.placeholder)
                                      THEN @ ELSE @ \cup {art.restored + 1},
                       !.restored = @ + 1])

\* the return after the restore loop; lines 309-314 on the main path
ReturnContent ==
    /\ pc = "restore"
    /\ art.restored = Len(art.protected_media)
    /\ IF art.main /\ has_japanese_markup(art.result_html)
       THEN MediaStep("returned",
                [art EXCEPT !.result_html = cleanup_japanese(art.result_html),
                            !.warnings = @ \cup {"japanese left, translating again"}])
       ELSE MediaStep("returned", art)

NextMedia ==
    \/ Protect
    \/ TranslateIdentity
    \/ Restore
    \/ ReturnContent

SpecMedia == InitMedia /\ [][NextMedia]_vars

\* ------------------------------------------------------------ two documents
\* the bodies of two articles of one run going through
\* translate_and_edit_content one after the other
PlaceholdersOf(a) ==
    {a.protected_media[m].placeholder : m \in DOMAIN a.protected_media}

InitTokens ==
    /\ ledger_file = <<>>
    /\ posted_articles = <<>>
    /\ FORCE_UPDATE = FALSE
    /\ pc = "protect"
    /\ target = <<1, 2>>
    /\ i = 1
    /\ art \in {MediaLocals(body) : body \in MediaBodies}
    /\ loaded = <<>>
    /\ skipped = 0
    /\ exhausted = 0
    /\ outcome = NoOutcome

\* process_article of the next article calls translate_and_edit_content
\* with its body: new locals
NextDocument ==
    /\ pc = "returned"
    /\ i < Len(target)
    /\ pc' = "protect"
    /\ i' = i + 1
    /\ \E body \in MediaBodies :
         art' = [MediaLocals(body) EXCEPT !.issued = art.issued \cup PlaceholdersOf(art)]
    /\ UNCHANGED <<ledger_file, posted_articles, FORCE_UPDATE, target,
                   loaded, skipped, exhausted, outcome>>

NextTokens ==
    \/ Protect
    \/ TranslateIdentity
    \/ Restore
    \/ ReturnContent
    \/ NextDocument

SpecTokens == InitTokens /\ [][NextTokens]_vars

\* ------------------------------------------------------------ altered answers
\* the service's answer to a text: the text with the placeholder of media
\* element d left out (d = -1: the text as it was sent)
DropToken(s, d) == IF d < 0 THEN s ELSE StrReplace(s, Placeholder(d), <<>>)

\* lines 292-298: block.clear() and the parsed answer appended, for each
\* translatable block
RECURSIVE InsertTranslations(_, _, _)
InsertTranslations(soup, paths, d) ==
    IF paths = <<>> THEN soup
    ELSE LET block == NodeAt(soup, Head(paths))
             answer == DropToken(decode_contents(block.children), d)
         IN  InsertTranslations(
                 replace_with(soup, Head(paths), Elem(block.tag, <<TextNode(answer)>>)),
                 Tail(paths), d)

\* lines 200-303 with a service that translates nothing and may lose one
\* placeholder in every text it is sent
TranslateDropping ==
    /\ pc = "protect"
    /\ art.media_counter = Len(art.found)
    /\ \E d \in -1 .. art.media_counter - 1 :
        LET blocks == find_all(art.soup, 1, <<>>, block_tags)
            full_text == get_text_lines(art.soup)
            translatable_blocks ==
                SelectSeq(blocks, LAMBDA path : has_text(NodeAt(art.soup, path)))
        IN  IF blocks = <<>>
            THEN IF full_text = <<>>
                 THEN MediaStep("returned", [art EXCEPT !.result_html = art.html_content])
                 ELSE IF DropToken(full_text, d) = <<>>
                 THEN MediaStep("returned", [art EXCEPT !.result_html = <<>>])
                 ELSE MediaStep("restore",
                          [art EXCEPT !.result_html =
                               <<"<p>">> \o DropToken(full_text, d) \o <<"</p>">>])
            ELSE IF translatable_blocks = <<>>
                 THEN MediaStep("restore", [art EXCEPT !.result_html = StrSoup(art.soup)])
                 ELSE MediaStep("restore",
                          [art EXCEPT !.result_html = decode_contents(
                                          InsertTranslations(art.soup, translatable_blocks, d)),
                                      !.main = TRUE])

NextDrop ==
    \/ Protect
    \/ TranslateDropping
    \/ Restore
    \/ ReturnContent

SpecDrop == InitMedia /\ [][NextDrop]_vars

\* ------------------------------------------------------------ _has_japanese on text
\* _has_japanese on the codepoints of its argument. A string is a sequence
\* of [cp, tag]: the codepoint, and whether it stands inside a tag (a name,
\* an attribute value) or in the text between tags
MaxChars == 7

HIRAGANA_FIRST == 12352
HIRAGANA_LAST  == 12447
KATAKANA_FIRST == 12448
KATAKANA_LAST  == 12543

Char(cp, tag) == [cp |-> cp, tag |-> tag]

\* a hiragana letter, the last codepoint of the katakana block, the first
\* codepoint after it, a kanji; a hiragana letter in an attribute value
Chars == {Char(12354, FALSE), Char(12543, FALSE), Char(12544, FALSE),
          Char(26085, FALSE), Char(12354, TRUE)}

Texts == UNION {[1 .. n -> Chars] : n \in 0 .. MaxChars}

\* re.compile(r'[\u3040-\u309f\u30a0-\u30ff]')
japanese_pattern(c) ==
    \/ HIRAGANA_FIRST <= c.cp /\ c.cp <= HIRAGANA_LAST
    \/ KATAKANA_FIRST <= c.cp /\ c.cp <= KATAKANA_LAST

\* BeautifulSoup(text, 'lxml').get_text()
get_text(text) == SelectSeq(text, LAMBDA c : ~c.tag)

\* japanese_pattern.findall(plain_text)
findall(plain_text) == SelectSeq(plain_text, japanese_pattern)

has_japanese_from_five(text) == Len(findall(get_text(text))) >= JAPANESE_THRESHOLD

has_japanese_text(text) == Len(findall(get_text(text))) > JAPANESE_THRESHOLD

InitDetect ==
    /\ ledger_file = <<>>
    /\ posted_articles = <<>>
    /\ FORCE_UPDATE = FALSE
    /\ pc = "detect"
    /\ target = <<1>>
    /\ i = 1
    /\ art \in {[text |-> t, result |-> FALSE] : t \in Texts}
    /\ loaded = <<>>
    /\ skipped = 0
    /\ exhausted = 0
    /\ outcome = NoOutcome

Detect ==
    /\ pc = "detect"
    /\ MediaStep("detected", [art EXCEPT !.result = has_japanese_text(art.text)])

NextDetect == Detect

SpecDetect == InitDetect /\ [][NextDetect]_vars

\* ------------------------------------------------------------ _call_api, attempt by attempt
\* one call of the client. What a request can end in: a candidate with text,
\* a candidate whose text is white space only, no candidate or no text, HTTP
\* 429, no answer within the timeout of 90 s, any other exception
max_retries == 3

BACKOFF_SECONDS == 5

RequestOutcomes == {"text", "blank", "no candidates", "throttled", "timeout", "error"}

\* mutant: the waits get shorter
backoff_shrinking(attempt) == BACKOFF_SECONDS * (max_retries - attempt)

\* line 112: the wait after the attempt with this 0-based number
backoff(attempt) == BACKOFF_SECONDS * (attempt + 1)

\* the locals of _call_api: attempt is the loop variable; observed: seen,
\* what the requests made so far ended in, and waits, the time.sleep calls
InitCall ==
    /\ ledger_file = <<>>
    /\ posted_articles = <<>>
    /\ FORCE_UPDATE = FALSE
    /\ pc = "attempt"
    /\ target = <<>>
    /\ i = 0
    /\ art = [attempt |-> 0, seen |-> <<>>, waits |-> <<>>, result |-> ""]
    /\ loaded = <<>>
    /\ skipped = 0
    /\ exhausted = 0
    /\ outcome = NoOutcome

\* lines 86-116: one iteration of the loop, with the return after the loop
\* when it was the last one
Attempt ==
    /\ pc = "attempt"
    /\ \E o \in RequestOutcomes :
        LET a == [art EXCEPT !.seen = Append(@, o)] IN
        IF o = "text" THEN MediaStep("called", [a EXCEPT !.result = "text"])
        ELSE IF o = "blank" THEN MediaStep("called", [a EXCEPT !.result = ""])
        ELSE IF art.attempt < max_retries - 1
        THEN MediaStep("attempt", [a EXCEPT !.waits = Append(@, backoff(art.attempt)),
                                            !.attempt = @ + 1])
        ELSE MediaStep("called", [a EXCEPT !.result = ""])

NextCall == Attempt

\* a request ends (requests.post has a timeout) and time.sleep returns
SpecCall == InitCall /\ [][NextCall]_vars /\ WF_vars(Attempt)

\* ------------------------------------------------------------ a long feed
\* run over a feed that has more entries than DAILY_LIMIT. process_article
\* is taken by what it returns and what it does to the ledger: it publishes
\* and records (lines 757-766), records a duplicate found on the
\* destination (lines 689-694), or gives up without recording
MaxEntries == 12

DatePatterns == {"rising", "falling", "same", "mixed"}

\* the publication date of entry j of a feed of n entries
DateOf(p, j, n) ==
    CASE p = "rising"  -> j
      [] p = "falling" -> n + 1 - j
      [] p = "same"    -> 1
      [] p = "mixed"   -> ((j * 5) % 7) + 1

\* feeds whose entries have the links 1, 2, ... in feed order
LongFeeds ==
    {[j \in 1 .. n |-> Entry(j, DateOf(p, j, n))] :
        n \in {0} \cup (DAILY_LIMIT - 1 .. MaxEntries), p \in DatePatterns}

LongLedgers == {<<>>, <<3, 6, 9, 12>>}

ArticleResults == {"published", "duplicate", "failed"}

InitRun ==
    /\ ledger_file \in LongLedgers
    /\ posted_articles = load_posted_articles(ledger_file)
    /\ loaded = load_posted_articles(ledger_file)
    /\ FORCE_UPDATE \in BOOLEAN
    /\ pc = "feed"
    /\ target = <<>>
    /\ i = 0
    /\ art \in {[feed |-> f, articles |-> <<>>, attempts |-> <<>>, success |-> 0] :
                    f \in LongFeeds}
    /\ skipped = 0
    /\ exhausted = 0
    /\ outcome = NoOutcome

\* run, lines 789-794
FetchFeed ==
    /\ pc = "feed"
    /\ LET articles == fetch_rss_feed(art.feed, posted_articles, FORCE_UPDATE) IN
        /\ art' = [art EXCEPT !.articles = articles,
                              !.attempts = [j \in DOMAIN articles |-> 0]]
        /\ target' = LinksOf(articles)
        /\ skipped' = Len(art.feed) - Len(Unposted(art.feed, posted_articles, FORCE_UPDATE))
        /\ IF articles = <<>>
           THEN pc' = "done" /\ i' = 0
           ELSE pc' = "loop" /\ i' = 1
    /\ UNCHANGED <<ledger_file, posted_articles, FORCE_UPDATE, loaded, exhausted, outcome>>

\* run, lines 795-800: one pass of the loop over articles
LoopPass ==
    /\ pc = "loop"
    /\ \E res \in ArticleResults :
        /\ res = "duplicate" => ~FORCE_UPDATE
        /\ LET link == target[i]
               list == CASE res = "duplicate" -> RecordDuplicate(posted_articles, link)
                         [] res = "published" -> RecordAfterPublish(TRUE, FORCE_UPDATE, posted_articles, link)
                         [] OTHER -> posted_articles
           IN  /\ posted_articles' = list
               /\ ledger_file' = IF list # posted_articles
                                 THEN save_posted_articles(list) ELSE ledger_file
        /\ art' = [art EXCEPT !.attempts[i] = @ + 1,
                              !.success = IF res = "published" THEN @ + 1 ELSE @]
    /\ IF i < Len(target)
       THEN pc' = "loop" /\ i' = i + 1
       ELSE pc' = "done" /\ i' = i
    /\ UNCHANGED <<FORCE_UPDATE, target, loaded, skipped, exhausted, outcome>>

NextRun ==
    \/ FetchFeed
    \/ LoopPass

SpecRun == InitRun /\ [][NextRun]_vars

\* ------------------------------------------------------------ translate_and_edit_title, call by call
\* a title or an answer of the service: lead characters that the pattern of
\* lines 147 and 166 removes from the front (digits, dots, quotes, brackets,
\* white space), core characters that it keeps, trail quote or bracket
\* characters that the last strip removes, and the language of the core
TitleText(lead, core, trail, lang) ==
    [lead |-> lead, core |-> core, trail |-> trail, lang |-> lang]

\* the empty string
NoText == TitleText(0, 0, 0, "none")

\* titles of feed entries
SourceTitles ==
    {TitleText(0, MIN_TITLE_LENGTH - 2, 0, "ja"),
     TitleText(0, MIN_TITLE_LENGTH + 2, 0, "ja"),
     TitleText(1, MIN_TITLE_LENGTH + 2, 1, "ja")}

\* what _call_api can return to translate_and_edit_title: "" or a text
TitleReplies ==
    {NoText} \cup
    ({TitleText(lead, core, trail, lang) :
         lead \in 0 .. 1,
         core \in {0, MIN_TITLE_LENGTH - 1, MIN_TITLE_LENGTH, MIN_TITLE_LENGTH + 2},
         trail \in 0 .. 1, lang \in {"ko", "ja"}}
     \ {TitleText(0, 0, 0, "ko"), TitleText(0, 0, 0, "ja")})

\* re.sub(...).strip().strip(quotes) of lines 147 and 166
clean_title(r) ==
    IF r.core = 0 THEN NoText ELSE TitleText(0, r.core, 0, r.lang)

title_len(r) == r.lead + r.core + r.trail

InitTitle ==
    /\ ledger_file = <<>>
    /\ posted_articles = <<>>
    /\ FORCE_UPDATE = FALSE
    /\ pc = "title_try"
    /\ target = <<1>>
    /\ i = 1
    /\ art \in {[NoArt EXCEPT !.raw_html = DocOneP]
                   @@ [title_ja |-> t, attempt |-> 0, calls |-> 0, seen |-> <<>>,
                       title_ko |-> NoText] : t \in SourceTitles}
    /\ loaded = <<>>
    /\ skipped = 0
    /\ exhausted = 0
    /\ outcome = NoOutcome

\* lines 144-155: one pass of the loop with the main prompt
TitleTry ==
    /\ pc = "title_try"
    /\ art.attempt < TITLE_TRIES
    /\ \E r \in TitleReplies :
        LET result == clean_title(r)
            a == [art EXCEPT !.calls = @ + 1, !.seen = Append(@, r # NoText)]
        IN  IF r # NoText /\ title_len(result) >= MIN_TITLE_LENGTH
            THEN MediaStep("title_returned", [a EXCEPT !.title_ko = result, !.slept = 0])
            ELSE MediaStep(IF art.attempt + 1 < TITLE_TRIES
                           THEN "title_try" ELSE "title_fallback",
                           [a EXCEPT !.attempt = @ + 1, !.slept = 2])

\* lines 157-174: the call with the fallback prompt
TitleFallback ==
    /\ pc = "title_fallback"
    /\ \E r \in TitleReplies :
        LET result == clean_title(r)
            a == [art EXCEPT !.calls = @ + 1, !.seen = Append(@, r # NoText), !.slept = 0]
        IN  IF r # NoText /\ title_len(result) >= MIN_TITLE_LENGTH
            THEN MediaStep("title_returned", [a EXCEPT !.title_ko = result])
            ELSE MediaStep("title_returned", [a EXCEPT !.title_ko = NoText])

\* process_article, lines 705-708, with the title it was given
TitleDone ==
    /\ pc = "title_returned"
    /\ TitleReturn(title_len(art.title_ko))
    /\ UNCHANGED <<ledger_file, posted_articles, FORCE_UPDATE, loaded, exhausted>>

NextTitle ==
    \/ TitleTry
    \/ TitleFallback
    \/ TitleDone

SpecTitle == InitTitle /\ [][NextTitle]_vars

\* ------------------------------------------------------------ validation
\* translate_and_edit_content from the end of the chunk loop (line 285) on,
\* for bodies of up to MaxParts paragraphs without kana: translated_blocks
\* has one entry per translatable block, empty or not
MaxParts == 10

PartChoices == {EmptyStr, Ja(100, 0)}

ValidateDocs == {Doc([j \in 1 .. n |-> Block("p", Ja(200, 0))], EmptyStr) : n \in 1 .. MaxParts}

InitValidate ==
    /\ ledger_file = <<>>
    /\ posted_articles = <<>>
    /\ FORCE_UPDATE = FALSE
    /\ pc = "validate"
    /\ target = <<1>>
    /\ i = 1
    /\ \E doc \in ValidateDocs :
        \E tr \in [1 .. Len(doc.blocks) -> PartChoices] :
          art = [NoArt EXCEPT !.raw_html = doc,
                              !.translatable_blocks = SelectBlocks(doc.blocks),
                              !.chunks = BuildChunks(SelectBlocks(doc.blocks)),
                              !.k = Len(BuildChunks(SelectBlocks(doc.blocks))),
                              !.translated_blocks = tr,
                              !.slept = 1]
    /\ loaded = <<>>
    /\ skipped = 0
    /\ exhausted = 0
    /\ outcome = NoOutcome

\* lines 285-314, and process_article's lines 712-719 on what is returned
Validate ==
    /\ pc = "validate"
    /\ AfterChunks(art)
    /\ UNCHANGED <<ledger_file, posted_articles, FORCE_UPDATE, loaded, exhausted>>

NextValidate == Validate

SpecValidate == InitValidate /\ [][NextValidate]_vars

\* ------------------------------------------------------------ properties
\* what a finished process_article did, by the stage it ended in
FetchedStages    == {"extract", "title", "body", "residual", "publish", "published"}
PublishStages    == {"publish", "published"}
FailedStages     == {"extract", "title", "body", "residual", "publish"}
\* positions of process_article after the content fetch
AfterFetch == {"title", "content", "fulltext", "chunk", "repair", "excerpt", "publish",
                  "protect", "restore", "returned"}

\* C1: the chunks' [start, end) ranges are non-empty and contiguous, start at
\* block 0, end at the number of translatable blocks, and every block lies in
\* exactly one chunk.
C1_ChunksPartitionBlocks ==
    pc = "chunk" =>
        LET ch == art.chunks
            n  == Len(art.translatable_blocks)
        IN  /\ Len(ch) >= 1
            /\ ch[1].start = 0
            /\ ch[Len(ch)].end = n
            /\ \A j \in 1 .. Len(ch) - 1 : ch[j].end = ch[j + 1].start
            /\ \A j \in DOMAIN ch : ch[j].start < ch[j].end
            /\ \A b \in 0 .. n - 1 :
                 Cardinality({j \in DOMAIN ch : ch[j].start <= b /\ b < ch[j].end}) = 1

C1_Witness ==
    /\ pc = "chunk"
    /\ Len(art.chunks) = 2
    /\ Len(art.translatable_blocks) = 3
    /\ Len(art.raw_html.blocks) = 3

\* C2: with the force flag unset, a link the ledger held when the process
\* loaded it is not among the selected articles, so no content fetch, no
\* translation call and no publish call is made for it in this run.
C2_RecordedNotReprocessed ==
    ~FORCE_UPDATE =>
        /\ \A j \in DOMAIN target : Count(loaded, target[j]) = 0
        /\ pc \in AfterFetch => Count(loaded, target[i]) = 0
        /\ outcome.stage \in FetchedStages => Count(loaded, outcome.link) = 0

C2_Witness ==
    /\ ~FORCE_UPDATE
    /\ loaded # <<>>
    /\ skipped > 0
    /\ pc = "publish"
    /\ Count(loaded, target[i]) = 0

\* C3: the ledger changes only in the step in which the destination search
\* found the link or post_to_wordpress returned success, and then by that
\* link; an article that ends in a failed stage leaves it as it was.
C3_RecordOnlyAfterSuccess ==
    [][ (posted_articles' # posted_articles \/ ledger_file' # ledger_file) =>
            /\ outcome'.stage \in {"published", "duplicate"}
            /\ outcome'.stage = "published" => pc = "publish" /\ outcome'.result
            /\ outcome'.stage = "duplicate" => pc = "article"
            /\ posted_articles' = Append(posted_articles, outcome'.link)
            /\ ledger_file' = posted_articles' ]_vars

C3_Witness ==
    /\ outcome.stage = "publish"
    /\ outcome.idx = 2
    /\ loaded = <<>>
    /\ Len(posted_articles) = 1
    /\ Count(posted_articles, outcome.link) = 0

\* C4: with the force flag unset, after process_article returned True the
\* ledger holds the article's link exactly once, and no link ever occurs more
\* than once in posted_articles.
C4_LedgerHoldsLinkOnce ==
    /\ (~FORCE_UPDATE /\ outcome.stage = "published") =>
            Count(posted_articles, outcome.link) = 1
    /\ \A u \in URLS : Count(posted_articles, u) <= 1

InRun == AfterFetch \cup {"article"}

C7_RepairedIsPublished ==
    outcome.passes >= 1 => outcome.stage \in PublishStages

\* C7 as amended: translate_and_edit_content returns the repaired body
\* whatever is left in it, but process_article's final check skips the
\* article when more than 5 kana remain: no publish call, nothing recorded;
\* what reaches the publish call has at most 5 kana.
C7_ResidualIsSkipped ==
    /\ outcome.stage = "residual" =>
            /\ ~outcome.result
            /\ outcome.kana > JAPANESE_THRESHOLD
            /\ posted_articles = loaded
    /\ outcome.stage \in PublishStages => outcome.kana <= JAPANESE_THRESHOLD
    /\ pc \in {"excerpt", "publish"} => KanaOf(art.content_ko) <= JAPANESE_THRESHOLD

C7_Witness ==
    /\ outcome.stage = "residual"
    /\ outcome.passes = 1
    /\ outcome.calls >= 1
    /\ pc = "done"

\* C8 as claimed: a repair issues exactly one more call to the service.
C8_RepairIsOneCall ==
    /\ outcome.passes >= 1 => outcome.calls = 1
    /\ art.repair_calls <= 1

\* C8 as amended: _cleanup_japanese runs at most once per article, and the
\* pass makes one _translate_single call for each p, h1-h4 or li element that
\* held kana when it began (none, one or several), never a second pass.
C8_RepairIsOnePass ==
    /\ art.repair_passes <= 1
    /\ outcome.passes <= 1
    /\ art.repair_calls <= art.repair_due
    /\ pc = "repair" => art.repair_passes = 1 /\ art.repair_calls < art.repair_due
    /\ pc \in {"excerpt", "publish"} => art.repair_calls = art.repair_due
    /\ outcome.calls = outcome.due
    /\ outcome.passes = 0 => outcome.calls = 0

C8_Witness ==
    /\ outcome.passes = 1
    /\ outcome.calls = 2
    /\ outcome.stage = "published"

\* C9: whatever the service answers, each chunk adds exactly end - start
\* entries, so after the loop there is one entry per translatable block; the
\* body keeps all its block elements in order, block j holding entry j or,
\* where that entry is empty, its markup from before the translation.
PositionOf(blocks, t) ==
    CHOOSE j \in DOMAIN blocks :
        /\ IsTranslatable(blocks[j])
        /\ Cardinality({m \in 1 .. j : IsTranslatable(blocks[m])}) = t

\* doc keeps the block elements of raw, and the translatable blocks 1 .. upto
\* hold the entries of tr
BlocksKept(raw, tr, doc, upto) ==
    /\ Len(doc.blocks) = Len(raw.blocks)
    /\ \A j \in DOMAIN raw.blocks :
         /\ doc.blocks[j].tag = raw.blocks[j].tag
         /\ ~IsTranslatable(raw.blocks[j]) => doc.blocks[j] = raw.blocks[j]
         /\ doc.blocks[j].inner.len > 0 \/ raw.blocks[j].inner.len = 0
    /\ \A t \in 1 .. upto :
         LET j == PositionOf(raw.blocks, t) IN
         doc.blocks[j].inner = IF tr[t].len > 0 THEN tr[t] ELSE raw.blocks[j].inner

C10_PlaceholderRoundTrip ==
    (pc = "returned" /\ art.found # <<>>) => art.result_html = art.html_content

\* the protected media elements whose markup is not in the returned body
LostMedia(a) ==
    {m \in DOMAIN a.protected_media :
        ~Occurs(a.result_html, a.protected_media[m].original)}

\* C11: when a placeholder was missing from the translated text and the
\* returned body (a non-empty result) lacks the markup of that media element,
\* translate_and_edit_content has printed a warning about the placeholder
\* it could not restore.
C11_LostMediaIsWarned ==
    (pc = "returned" /\ art.result_html # <<>>
                     /\ LostMedia(art) \cap art.unrestored # {}) =>
        "placeholder missing" \in art.warnings

\* C12: an article whose title translation failed, or for which a chunk call
\* came back empty after the client's attempts, is skipped: it does not get
\* to the publish call and its link is not added to the ledger.
C12_FailedTranslationIsSkipped ==
    /\ outcome.stage = "title" =>
            ~outcome.result /\ Count(posted_articles, outcome.link) = Count(loaded, outcome.link)
    /\ pc \in {"excerpt", "publish"} => art.chunks_failed = 0
    /\ outcome.chunks_failed > 0 =>
            /\ outcome.stage \notin PublishStages
            /\ Count(posted_articles, outcome.link) = 0

\* C13: when fetch_full_content returns no content, process_article returns
\* False in that step: the article never gets to a translation, upload or
\* publish step, the loop goes on to the next article (the fetch is not tried
\* again) and the ledger is as it was.
C13_NoContentIsSkipped ==
    /\ [][ /\ (pc = "article" /\ outcome'.stage = "extract") =>
                 /\ ~outcome'.result
                 /\ outcome'.idx = i /\ outcome'.link = target[i]
                 /\ pc' \in {"article", "done"}
                 /\ pc' = "article" => (i' = i + 1 /\ target' = target)
                 /\ pc' = "done" => i = Len(target)
                 /\ art'.raw_html = EmptyDoc
                 /\ exhausted' = exhausted
                 /\ UNCHANGED <<ledger_file, posted_articles>>
           /\ (pc # "article" /\ outcome'.stage = "extract") => outcome' = outcome ]_vars
    /\ [](pc \in {"title", "content"} => art.raw_html # EmptyDoc)

C13_Witness ==
    /\ outcome.stage = "extract"
    /\ outcome.idx = 1
    /\ pc = "article"
    /\ i = 2
    /\ posted_articles = loaded

\* C14: with the force flag unset, an article whose link the destination's
\* search finds in a post is not fetched, translated or published: the step
\* ends it with False and with the link in the ledger, in memory and on
\* disk. A search that raised or returned another status than 200 counts as
\* "not posted".
C14_DuplicateIsRecordedNotRepublished ==
    /\ [][ /\ (pc = "article" /\ outcome'.stage = "duplicate") =>
                 /\ ~FORCE_UPDATE
                 /\ ~outcome'.result
                 /\ outcome'.link = target[i]
                 /\ Count(posted_articles', target[i]) >= 1
                 /\ Count(ledger_file', target[i]) >= 1
                 /\ pc' \in {"article", "done"}
                 /\ pc' = "article" => (i' = i + 1 /\ target' = target)
                 /\ exhausted' = exhausted
           /\ (pc # "article" /\ outcome'.stage = "duplicate") => outcome' = outcome ]_vars
    /\ [](\A r \in SearchResults :
             (r.raised \/ r.status # 200 \/ ~r.hit) => ~is_already_posted_on_wp(r))

C14_Witness ==
    /\ ~FORCE_UPDATE
    /\ outcome.stage = "duplicate"
    /\ Count(loaded, outcome.link) = 0
    /\ Count(posted_articles, outcome.link) = 1
    /\ ledger_file = posted_articles

\* C15: _has_japanese is true exactly for the strings with six or more
\* hiragana or katakana codepoints in the text between the tags: true with
\* six, false with five, whatever the tags hold and whatever other
\* codepoints the text has.
KanaOutsideTags(text) ==
    Cardinality({j \in DOMAIN text :
        /\ ~text[j].tag
        /\ text[j].cp \in (12352 .. 12447) \cup (12448 .. 12543)})

RECURSIVE SumLen(_)
SumLen(tb) == IF tb = <<>> THEN 0 ELSE Head(tb).inner.len + SumLen(Tail(tb))

C16_BudgetPlusOneMakesTwoChunks ==
    (pc = "chunk" /\ Len(art.translatable_blocks) >= 2
                  /\ SumLen(art.translatable_blocks) = CHUNK_BUDGET + 1) =>
        LET tb == art.translatable_blocks
            n  == Len(tb)
            b  == CHOOSE j \in 0 .. n - 1 :
                      /\ SumLen(SubSeq(tb, 1, j)) <= CHUNK_BUDGET
                      /\ SumLen(SubSeq(tb, 1, j + 1)) > CHUNK_BUDGET
        IN  /\ Len(art.chunks) = 2
            /\ art.chunks[1].start = 0 /\ art.chunks[1].end = b
            /\ art.chunks[2].start = b /\ art.chunks[2].end = n
            /\ art.chunks[1].size <= CHUNK_BUDGET
            /\ art.chunks[1].size + art.chunks[2].size = CHUNK_BUDGET + 1

C16_Witness ==
    /\ pc = "chunk"
    /\ Len(art.translatable_blocks) = 3
    /\ SumLen(art.translatable_blocks) = CHUNK_BUDGET + 1
    /\ Len(art.chunks) = 2
    /\ art.chunks[2].start = 2

\* C17: a call of the client makes at most three requests and then returns:
\* after a request that gave no text it sleeps and tries again, each sleep
\* twice as long as the one before, and after the third such request it
\* returns "" without another sleep; it returns text only from a request
\* that gave text.
C17_CallIsBounded ==
    /\ [](pc \in {"attempt", "called"} =>
            /\ Len(art.seen) <= 3
            /\ art.waits # <<>> => art.waits[1] > 0
            /\ \A j \in 2 .. Len(art.waits) : art.waits[j] = 2 * art.waits[j - 1]
            /\ pc = "attempt" => Len(art.waits) = Len(art.seen)
            /\ pc = "called" =>
                  /\ Len(art.waits) = Len(art.seen) - 1
                  /\ art.result # "" <=> art.seen[Len(art.seen)] = "text"
                  /\ \A j \in 1 .. Len(art.seen) - 1 :
                        art.seen[j] \notin {"text", "blank"})
    /\ <>(pc = "called")

C17_Witness ==
    /\ pc = "called"
    /\ art.seen = <<"throttled", "timeout", "throttled">>
    /\ art.waits = <<5, 10>>
    /\ art.result = ""

\* C18: whenever the client is about to be called for a title, a body text,
\* a chunk, an element to repair or an excerpt, the process has slept since
\* the call before it returned.
ServiceCalls == {"title", "fulltext", "chunk", "repair", "excerpt"}

C18_CallsAreSpaced ==
    pc \in ServiceCalls => art.slept > 0

\* C19 as claimed: a process exits at startup only because a credential is
\* missing.
C19_OnlyMissingCredentialsFatal ==
    pc = "exit" => outcome.stage = "credentials"

\* C19 as amended: a process exits at startup because a credential is
\* missing (the key when the engine is built, the destination's user or
\* password when run begins) or because the probe call of the client
\* returned ""; a failed probe always ends the process. Either way the feed
\* has not been read, no article has been begun and the ledger is as the
\* process found it; once the articles are being processed nothing ends the
\* process before the loop is over.
C19_StartupExits ==
    /\ [](pc = "exit" =>
            /\ outcome.stage \in {"credentials", "probe"}
            /\ target = <<>> /\ i = 0 /\ art = NoArt)
    /\ [](pc \in InRun => outcome.stage \notin {"credentials", "probe"})
    /\ [][ /\ pc' = "exit" =>
                 /\ pc \in {"idle", "exit", "done", "probe"}
                 /\ ledger_file' = ledger_file
                 /\ pc = "probe" => posted_articles' = posted_articles
           /\ (pc = "probe" /\ outcome'.stage = "probe") => pc' = "exit"
           /\ pc \in InRun => pc' \in InRun \cup {"done"} ]_vars

C19_Witness ==
    /\ pc = "exit"
    /\ outcome.stage = "probe"
    /\ loaded # <<>>
    /\ posted_articles = loaded

\* C20 as claimed: no media element of a run is given a placeholder that an
\* element of an earlier document of the run was given.
C20_TokensUniquePerRun ==
    PlaceholdersOf(art) \cap art.issued = {}

\* C20 as amended: within one call of translate_and_edit_content the
\* elements find_all returned get the placeholders numbered 0, 1, 2, ... in
\* that order, all different, each recorded with the markup of its element;
\* after the loop there is one entry per element. The numbering starts again
\* at 0 in the next document.
C20_TokensUniquePerDocument ==
    pc \in {"protect", "restore", "returned"} =>
        LET pm == art.protected_media IN
        /\ Len(pm) = art.media_counter
        /\ \A m, n \in DOMAIN pm : m # n => pm[m].placeholder # pm[n].placeholder
        /\ \A m \in DOMAIN pm :
             /\ pm[m].placeholder = <<"___MEDIA_">> \o Decimal(m - 1) \o <<"___">>
             /\ pm[m].original = Str(NodeAt(art.parsed, art.found[m]))
        /\ Cardinality(PlaceholdersOf(art)) = Len(pm)
        /\ pc \in {"restore", "returned"} => Len(pm) = Len(art.found)

C20_Witness ==
    /\ i = 2
    /\ pc = "returned"
    /\ Len(art.protected_media) = 2
    /\ Cardinality(art.issued) = 3
    /\ PlaceholdersOf(art) \subseteq art.issued

\* the inner HTML lengths of the blocks tb[s + 1 .. e] added up
BlocksLen(tb, s, e) == SumLen(SubSeq(tb, s + 1, e))

\* C21: every chunk holds at least one block; a chunk of two or more blocks
\* has lengths adding up to CHUNK_BUDGET at most, so a chunk is over the
\* budget only when it is a single block; chunks are runs of whole blocks,
\* one after the other, so no block lies in two chunks.
C21_ChunkWithinBudgetUnlessSingle ==
    pc = "chunk" =>
        LET tb == art.translatable_blocks
            ch == art.chunks
        IN  \A j \in DOMAIN ch :
              /\ 0 <= ch[j].start /\ ch[j].end <= Len(tb)
              /\ ch[j].end - ch[j].start >= 1
              /\ ch[j].size = BlocksLen(tb, ch[j].start, ch[j].end)
              /\ ch[j].end - ch[j].start >= 2 =>
                     BlocksLen(tb, ch[j].start, ch[j].end) <= CHUNK_BUDGET
              /\ BlocksLen(tb, ch[j].start, ch[j].end) > CHUNK_BUDGET =>
                     ch[j].end - ch[j].start = 1
              /\ \A k \in DOMAIN ch : j < k => ch[j].end <= ch[k].start

C21_Witness ==
    /\ pc = "chunk"
    /\ Len(art.chunks) = 2
    /\ art.chunks[1].end - art.chunks[1].start = 1
    /\ art.chunks[1].size > CHUNK_BUDGET
    /\ art.chunks[2].end - art.chunks[2].start = 2
    /\ art.chunks[2].size = CHUNK_BUDGET

\* the feed entries a run may select: those whose link the ledger loaded at
\* startup does not hold, all of them under FORCE_UPDATE
Selectable(feed) ==
    {j \in DOMAIN feed : FORCE_UPDATE \/ Count(loaded, feed[j].link) = 0}

\* C22: a run selects DAILY_LIMIT articles at most: the newest of the feed
\* entries that are not in the ledger, newest first, each entry once; the
\* loop of run calls process_article once for each of them, in that order,
\* so a run attempts DAILY_LIMIT articles at most and publishes no more than
\* it attempts.
C22_RunTakesNewestUpToLimit ==
    pc \in {"loop", "done"} =>
        LET feed == art.feed
            sel  == art.articles
            from == Selectable(feed)
            in   == {j \in from : \E k \in DOMAIN sel : sel[k] = feed[j]}
        IN  /\ Len(sel) <= DAILY_LIMIT
            /\ Len(sel) = Min(Cardinality(from), DAILY_LIMIT)
            /\ Cardinality(in) = Len(sel)
            /\ \A k \in DOMAIN sel : \E j \in from : sel[k] = feed[j]
            /\ \A k, l \in DOMAIN sel : k < l => sel[k].date >= sel[l].date
            /\ \A j \in from \ in : \A k \in DOMAIN sel : sel[k].date >= feed[j].date
            /\ target = LinksOf(sel)
            /\ \A k \in DOMAIN sel :
                 art.attempts[k] = IF k < i \/ pc = "done" THEN 1 ELSE 0
            /\ art.success <= Cardinality({k \in DOMAIN sel : art.attempts[k] = 1})
            /\ art.success <= DAILY_LIMIT

C22_Witness ==
    /\ pc = "done"
    /\ Len(art.feed) = DAILY_LIMIT + 2
    /\ Cardinality(Selectable(art.feed)) = DAILY_LIMIT + 2
    /\ Len(art.articles) = DAILY_LIMIT
    /\ art.articles[1].date > art.articles[DAILY_LIMIT].date
    /\ art.success = DAILY_LIMIT

\* C23: translate_and_edit_title returns "" or a cleaned title of
\* MIN_TITLE_LENGTH characters or more, after TITLE_TRIES calls with the main
\* prompt and one with the fallback prompt at most; what it returns is never
\* the title it was given; and after "" process_article returns False
\* without going on to the body.
C23_TitleIsTranslatedOrEmpty ==
    /\ [](pc = "title_returned" =>
            /\ art.calls <= TITLE_TRIES + 1
            /\ \/ art.title_ko = NoText
               \/ /\ title_len(art.title_ko) >= MIN_TITLE_LENGTH
                  /\ art.title_ko.lead = 0 /\ art.title_ko.trail = 0
            /\ art.title_ko # art.title_ja)
    /\ [][(pc = "title_returned" /\ art.title_ko = NoText) =>
            (pc' = "done" /\ ~outcome'.result /\ outcome'.stage = "title"
             /\ ledger_file' = ledger_file)]_vars

\* C23 without the part on the source title: number of calls, length of
\* what is returned, and the skip after ""
TitleCallsAndLength ==
    /\ [](pc = "title_returned" =>
            /\ art.calls <= TITLE_TRIES + 1
            /\ art.calls = Len(art.seen)
            /\ \/ art.title_ko = NoText /\ art.calls = TITLE_TRIES + 1
               \/ /\ title_len(art.title_ko) >= MIN_TITLE_LENGTH
                  /\ art.title_ko.lead = 0 /\ art.title_ko.trail = 0)
    /\ [][(pc = "title_returned" /\ art.title_ko = NoText) =>
            (pc' = "done" /\ ~outcome'.result /\ outcome'.stage = "title"
             /\ ledger_file' = ledger_file)]_vars

\* C24: when the chunk loop is over and fewer than 30 in 100 of the
\* translatable blocks have a non-empty entry in translated_blocks,
\* translate_and_edit_content returns "": process_article returns False and
\* the ledger stays as it was. In every other case the body that is
\* returned is not empty: it has every block of the source, each with a
\* non-empty content.
C24_ValidationThreshold ==
    /\ [][pc = "validate" =>
            LET n     == Cardinality({j \in DOMAIN art.translated_blocks :
                                         art.translated_blocks[j] # EmptyStr})
                total == Len(art.translatable_blocks)
            IN  IF 100 * n < 30 * total
                THEN /\ pc' = "done"
                     /\ outcome'.stage = "body" /\ ~outcome'.result
                     /\ ledger_file' = ledger_file
                     /\ posted_articles' = posted_articles
                ELSE /\ pc' = "excerpt"
                     /\ Len(art'.content_ko.blocks) = Len(art.raw_html.blocks)
                     /\ \A j \in DOMAIN art'.content_ko.blocks :
                          art'.content_ko.blocks[j].inner.len > 0
                     /\ outcome' = outcome]_vars
    /\ []((outcome.stage = "body" /\ outcome.blocks > 0) =>
            100 * outcome.entries < 30 * outcome.blocks)

C24_Witness ==
    /\ pc = "done"
    /\ outcome.stage = "body"
    /\ outcome.blocks = 10
    /\ outcome.entries = 2
    /\ ledger_file = <<>>

\* C25: in a process started with FORCE_UPDATE set nothing changes the
\* ledger: fetch_rss_feed leaves out no entry for being in it, no article
\* ends at the duplicate check on the destination, and a publish that
\* succeeded appends nothing, so posted_articles and the file stay what was
\* loaded at startup.
C25_ForceLeavesLedger ==
    /\ []((FORCE_UPDATE /\ pc \notin {"idle", "exit"}) =>
            /\ posted_articles = loaded
            /\ ledger_file = save_posted_articles(loaded)
            /\ skipped = 0
            /\ outcome.stage # "duplicate")
    /\ [][(FORCE_UPDATE /\ FORCE_UPDATE') =>
            /\ ledger_file' = ledger_file
            /\ pc \notin {"idle", "exit", "done"} => posted_articles' = posted_articles]_vars

C25_Witness ==
    /\ FORCE_UPDATE
    /\ pc = "done"
    /\ outcome.stage = "published"
    /\ outcome.result
    /\ Count(loaded, outcome.link) = 1
    /\ posted_articles = loaded
    /\ ledger_file = loaded

====
